---- MODULE Spec2Model ----
(***************************************************************************)
(* SunKalp (src/server.js): the three notification-service variants        *)
(* (threshold check + cooldown + SMS) and the browser dashboard, as one    *)
(* state machine.  `program` says which of the four programs is running.   *)
(*                                                                         *)
(* checkSensors and fetchData are async functions: they run synchronously  *)
(* from one await to the next.  Each action is one such synchronous        *)
(* segment: the start of the call up to `await axios.get`, the resumption  *)
(* after the fetch up to the first `await sendSMS`, and each resumption    *)
(* after an SMS up to the next `await sendSMS` or the end of the function. *)
(***************************************************************************)
EXTENDS Integers, Sequences, FiniteSets, TLC

VARIABLES
    program,               \* "service1" | "service2" | "service3" | "dashboard"
    \* ---- service ----
    client,                \* TRUE iff the Twilio client was constructed
    credentials,           \* TRUE iff CONFIG.thingspeak.channelId and apiKey are set
    clock,                 \* the last value Date.now() returned, in milliseconds
    lastNotificationTime,  \* metric -> time of the last notification (0 initially)
    pc,                    \* invocation -> "idle" | "fetch" | "sms" | "done"
    latest,                \* invocation -> response.data.feeds[0] (field -> number; fields may be missing)
    now,                   \* invocation -> the local `now` of checkSensors
    pos,                   \* invocation -> index of the check whose sendSMS is awaited
    polls,                 \* number of checkSensors invocations started so far
    poll,                  \* history: invocation -> its number among the invocations started
    fetched,               \* history: invocation -> TRUE iff its fetch returned a feed
    lastBefore,            \* history: invocation -> lastNotificationTime when `now` was taken
    smsLog,                \* history: every sendSMS call, in order
    \* ---- dashboard ----
    permission,            \* TRUE iff Notification.permission === "granted"
    isConnected,           \* React state
    data,                  \* React state: the formatted feeds
    alerts,                \* React state: the alerts of the latest sample
    lastUpdate,            \* React state: 0 for null, else the number of the fetch that set it
    fetches,               \* fetchData calls awaiting their response
    dpolls,                \* number of fetchData calls started so far
    notifications,         \* history: every Notification shown, in order
    responses,             \* history: what every completed fetchData call received, in order
    language,              \* React state: "none" for null, else "en" | "hi"
    user,                  \* React state: TRUE iff user is not null
    channelId,             \* React state: "" or the channel id typed in
    apiKey,                \* React state: "" or the key typed in
    storage,               \* localStorage: language, googleUser, channelId, apiKey
    timers,                \* number of live interval timers of the polling effect
    refused                \* history: TRUE iff a handleConnect call returned without connecting

svars == <<client, credentials, clock, lastNotificationTime, pc, latest, now, pos, polls,
           poll, fetched, lastBefore, smsLog>>
uvars == <<language, user, channelId, apiKey, storage, timers, refused>>
dvars == <<permission, isConnected, data, alerts, lastUpdate, fetches, dpolls, notifications,
           responses, uvars>>
vars == <<program, svars, dvars>>

(***************************** bounds **************************************)
\* checkSensors invocations in a run
MaxPolls == 2
\* fetchData calls in a run
MaxFetches == 2
\* entries of a feeds array the dashboard receives
MaxFeeds == 2
\* repeated alerts of one metric followed in a steady run
MaxRefires == 1

Services == {"service1", "service2", "service3"}
Invocations == {1, 2}

(**************************** CONFIG ***************************************)
Fields == {"field1", "field2", "field3", "field5"}

\* CONFIG.checkInterval
CheckInterval(v) == 60000

\* CONFIG.cooldown
Cooldown(v) == IF v = "service2" THEN 30 * 1000 ELSE 30 * 60 * 1000

\* variant of Limits in which the dashboard's copy of the battery limit has drifted
LimitsDrifted(v) ==
    CASE v = "service1" -> [voltage |-> 250, current |-> 15, temperature |-> 50, battery |-> 20]
      [] v = "service2" -> [voltage |-> 15, lightIntensity |-> 100, temperature |-> 40,
                            humidity |-> 80]
      [] v = "service3" -> [voltage |-> 250, current |-> 15, temperature |-> 50, humidity |-> 20]
      [] v = "dashboard" -> [voltage |-> 250, current |-> 15, temperature |-> 50, battery |-> 25]

\* CONFIG.limits; LIMITS in the dashboard
Limits(v) ==
    CASE v = "service1" -> [voltage |-> 250, current |-> 15, temperature |-> 50, battery |-> 20]
      [] v = "service2" -> [voltage |-> 15, lightIntensity |-> 100, temperature |-> 40,
                            humidity |-> 80]
      [] v = "service3" -> [voltage |-> 250, current |-> 15, temperature |-> 50, humidity |-> 20]
      [] v = "dashboard" -> [voltage |-> 250, current |-> 15, temperature |-> 50, battery |-> 20]

\* the keys of the lastNotificationTime object
TrackedMetrics(v) ==
    CASE v = "service1" -> {"voltage", "current", "temperature", "battery"}
      [] v = "service2" -> {"lightIntensity"}
      [] v = "service3" -> {"voltage", "current", "temperature", "humidity"}
      [] v = "dashboard" -> {}

\* which feed field each metric is read from (the `Number(latest.fieldN) || 0` lines)
FieldOf(v) ==
    CASE v = "service1" -> [voltage |-> "field1", current |-> "field2", battery |-> "field3",
                            temperature |-> "field5"]
      [] v = "service2" -> [voltage |-> "field1", lightIntensity |-> "field2",
                            humidity |-> "field3", temperature |-> "field5"]
      [] v = "service3" -> [voltage |-> "field1", current |-> "field2", humidity |-> "field3",
                            temperature |-> "field5"]
      [] v = "dashboard" -> [voltage |-> "field1", current |-> "field2", battery |-> "field3",
                             temperature |-> "field5"]

\* The if-blocks of checkSensors (of checkEmergencies in the dashboard), in source
\* order.  dir "above" is `value > limit`, dir "below" is `value < limit`;
\* zeroGuard is the extra `&& value > 0`.
Checks(v) ==
    CASE v = "service1" ->
            << [metric |-> "voltage",     dir |-> "above", zeroGuard |-> FALSE],
               [metric |-> "current",     dir |-> "above", zeroGuard |-> FALSE],
               [metric |-> "temperature", dir |-> "above", zeroGuard |-> FALSE],
               [metric |-> "battery",     dir |-> "below", zeroGuard |-> TRUE] >>
      [] v = "service2" ->
            << [metric |-> "lightIntensity", dir |-> "below", zeroGuard |-> FALSE] >>
      [] v = "service3" ->
            << [metric |-> "voltage",     dir |-> "above", zeroGuard |-> FALSE],
               [metric |-> "current",     dir |-> "above", zeroGuard |-> FALSE],
               [metric |-> "temperature", dir |-> "above", zeroGuard |-> FALSE],
               [metric |-> "humidity",    dir |-> "below", zeroGuard |-> TRUE] >>
      [] v = "dashboard" ->
            << [metric |-> "voltage",     dir |-> "above", zeroGuard |-> FALSE],
               [metric |-> "current",     dir |-> "above", zeroGuard |-> FALSE],
               [metric |-> "temperature", dir |-> "above", zeroGuard |-> FALSE],
               [metric |-> "battery",     dir |-> "below", zeroGuard |-> TRUE] >>

(************************ pure parts of checkSensors ***********************)
\* Number(latest.fieldN) || 0 : a missing (undefined, null, non-numeric) field reads as 0
ParseField(feed, f) == IF f \in DOMAIN feed THEN feed[f] ELSE 0

\* the parsed value of a metric in a feed
Value(v, feed, m) == ParseField(feed, FieldOf(v)[m])

\* variant of Breach with inclusive comparisons
BreachInclusive(v, c, value) ==
    IF c.dir = "above"
    THEN value >= Limits(v)[c.metric]
    ELSE /\ value <= Limits(v)[c.metric]
         /\ (c.zeroGuard => value > 0)

\* variant of Breach that ignores the zero guard
BreachUnguarded(v, c, value) ==
    IF c.dir = "above"
    THEN value > Limits(v)[c.metric]
    ELSE value < Limits(v)[c.metric]

\* the outer `if` of a check
Breach(v, c, value) ==
    IF c.dir = "above"
    THEN value > Limits(v)[c.metric]
    ELSE /\ value < Limits(v)[c.metric]
         /\ (c.zeroGuard => value > 0)

\* variant of CooldownElapsed that lets a metric fire only once
CooldownElapsedOnce(v, t, last) == last = 0 /\ t - last > Cooldown(v)

\* the inner `if`: now - lastNotificationTime.x > CONFIG.cooldown
CooldownElapsed(v, t, last) == t - last > Cooldown(v)

\* variant of Fires with one cooldown shared by all the metrics
FiresShared(v, c, feed, t, lnt) ==
    /\ Breach(v, c, Value(v, feed, c.metric))
    /\ \A m \in DOMAIN lnt : CooldownElapsed(v, t, lnt[m])

\* a check sends an SMS
Fires(v, c, feed, t, lnt) ==
    /\ Breach(v, c, Value(v, feed, c.metric))
    /\ CooldownElapsed(v, t, lnt[c.metric])

\* index of the first check at or after k that sends an SMS; Len+1 when none does
RECURSIVE NextFiring(_, _, _, _, _)
NextFiring(v, k, feed, t, lnt) ==
    IF k > Len(Checks(v)) THEN k
    ELSE IF Fires(v, Checks(v)[k], feed, t, lnt) THEN k
    ELSE NextFiring(v, k + 1, feed, t, lnt)

\* variant of AfterSend that records the time only of a delivered SMS
AfterSendRollback(o, t, last) == IF o = "sent" THEN t ELSE last

\* `await sendSMS(msg); lastNotificationTime.x = now;` : what is recorded once
\* sendSMS has returned with outcome o
AfterSend(o, t, last) == t

\* variant of AtCall in which every call starts from fresh timestamps
AtCallFresh(lnt) == [m \in DOMAIN lnt |-> 0]

\* lastNotificationTime is module state: a call starts from what the last one left
AtCall(lnt) == lnt

(************************** inputs *****************************************)
\* the limits the CONFIG comments call "Low limit"
LowLimit(v, m) ==
    \/ v \in {"service1", "dashboard"} /\ m = "battery"
    \/ v = "service2" /\ m = "lightIntensity"
    \/ v = "service3" /\ m = "humidity"

\* values a feed field may carry: around the limit of the metric read from it
\* (and around 0 for a low limit)
FieldValues(v, f) ==
    LET m == CHOOSE x \in DOMAIN FieldOf(v) : FieldOf(v)[x] = f
        lim == Limits(v)[m]
    IN  IF LowLimit(v, m) THEN {-1, 0, lim - 1, lim} ELSE {lim, lim + 1}

\* feeds with the fields of F present, any combination of their values
FeedsOver(v, F) ==
    { g \in [F -> UNION {FieldValues(v, f) : f \in F}] : \A f \in F : g[f] \in FieldValues(v, f) }

\* service feeds: any subset of the fields present
Feeds(v) == UNION { FeedsOver(v, F) : F \in SUBSET Fields }

NoFeed == [f \in {} |-> 0]

\* how far Date.now() may have moved since it was last read: not at all, one
\* polling interval, exactly the cooldown, just over the cooldown
Steps(v) == {0, CheckInterval(v), Cooldown(v), Cooldown(v) + 1}

(***************************** Init ****************************************)
\* localStorage without any of the dashboard's items
NoStorage == [language |-> "none", googleUser |-> FALSE, channelId |-> "", apiKey |-> ""]

Languages == {"en", "hi"}

\* what earlier sessions of the dashboard can have left in localStorage: a user
\* only once a language was chosen, the channel id and the key together and
\* only for a signed-in user
Storages ==
    { st \in [language : Languages \cup {"none"}, googleUser : BOOLEAN,
              channelId : {"", "id"}, apiKey : {"", "key"}] :
        /\ st.language = "none" => ~st.googleUser
        /\ st.channelId # "" <=> st.apiKey # ""
        /\ st.channelId # "" => st.googleUser }

InitService ==
    /\ program \in Services
    /\ client \in BOOLEAN
    /\ credentials \in BOOLEAN
    /\ permission = FALSE
    /\ storage = NoStorage

InitDashboard ==
    /\ program = "dashboard"
    /\ client = FALSE
    /\ credentials = FALSE
    /\ permission \in BOOLEAN
    /\ storage \in Storages

InitRest ==
    /\ clock = 0
    /\ lastNotificationTime = [m \in TrackedMetrics(program) |-> 0]
    /\ pc = [i \in Invocations |-> "idle"]
    /\ now = [i \in Invocations |-> 0]
    /\ pos = [i \in Invocations |-> 0]
    /\ polls = 0
    /\ poll = [i \in Invocations |-> 0]
    /\ fetched = [i \in Invocations |-> FALSE]
    /\ lastBefore = [i \in Invocations |-> lastNotificationTime]
    /\ smsLog = << >>
    /\ isConnected = FALSE
    /\ data = << >>
    /\ alerts = << >>
    /\ lastUpdate = 0
    /\ fetches = 0
    /\ dpolls = 0
    /\ notifications = << >>
    /\ responses = << >>
    /\ language = storage.language
    /\ user = storage.googleUser
    /\ channelId = storage.channelId
    /\ apiKey = storage.apiKey
    /\ timers = 0
    /\ refused = FALSE

Init ==
    /\ InitService \/ InitDashboard
    /\ latest = [i \in Invocations |-> NoFeed]
    /\ InitRest

(*************************** sendSMS ***************************************)
\* what a sendSMS call can come to: without a client it only logs; with one,
\* client.messages.create resolves, or throws and the catch block logs
Outcomes == IF client THEN {"sent", "error"} ELSE {"simulated"}

(*************************** checkSensors **********************************)
\* the sendSMS call of check n of invocation i, as the history records it
SmsEntry(i, n, feed, t) ==
    [poll |-> poll[i], metric |-> Checks(program)[n].metric,
     value |-> Value(program, feed, Checks(program)[n].metric), at |-> t,
     outcome |-> "pending"]

\* run the checks from index k to the next `await sendSMS` or to the end
RunChecks(i, k, feed, t, lnt, log) ==
    LET n == NextFiring(program, k, feed, t, lnt) IN
    IF n > Len(Checks(program))
    THEN /\ pc' = [pc EXCEPT ![i] = "done"]
         /\ pos' = [pos EXCEPT ![i] = 0]
         /\ smsLog' = log
    ELSE /\ pc' = [pc EXCEPT ![i] = "sms"]
         /\ pos' = [pos EXCEPT ![i] = n]
         /\ smsLog' = Append(log, SmsEntry(i, n, feed, t))

\* variant of AfterGuard in which checkSensors fetches without credentials
AfterGuardFetching(c) == "fetch"

\* the credential guard of checkSensors: without the channel id or the key it
\* logs and returns
AfterGuard(c) == IF c THEN "fetch" ELSE "done"

\* checkSensors is called (by the interval timer, or once on startup): the
\* credential guard, then `await axios.get(url)`.  `feed` is what latest[i] holds
\* until the response arrives.
BeginCall(i, feed) ==
    /\ program \in Services
    /\ pc[i] \in {"idle", "done"}
    /\ polls' = polls + 1
    /\ poll' = [poll EXCEPT ![i] = polls + 1]
    /\ latest' = [latest EXCEPT ![i] = feed]
    /\ now' = [now EXCEPT ![i] = 0]
    /\ pos' = [pos EXCEPT ![i] = 0]
    /\ fetched' = [fetched EXCEPT ![i] = FALSE]
    /\ lastNotificationTime' = AtCall(lastNotificationTime)
    /\ lastBefore' = [lastBefore EXCEPT ![i] = lastNotificationTime']
    /\ pc' = [pc EXCEPT ![i] = AfterGuard(credentials)]
    /\ UNCHANGED <<program, client, credentials, clock, smsLog, dvars>>

\* at most MaxPolls invocations in a run
StartCall(i, feed) == polls < MaxPolls /\ BeginCall(i, feed)

Start(i) == StartCall(i, NoFeed)

\* variant of FetchFail in which the rejection is not caught and ends the process
FetchFailUncaught(i) ==
    /\ pc[i] = "fetch"
    /\ pc' = [j \in Invocations |-> "exit"]
    /\ UNCHANGED <<program, client, credentials, clock, lastNotificationTime, latest, now,
                   pos, polls, poll, fetched, lastBefore, smsLog, dvars>>

\* axios.get rejects (network error, bad status): the catch block logs
FetchFail(i) ==
    /\ pc[i] = "fetch"
    /\ pc' = [pc EXCEPT ![i] = "done"]
    /\ UNCHANGED <<program, client, credentials, clock, lastNotificationTime, latest, now,
                   pos, polls, poll, fetched, lastBefore, smsLog, dvars>>

\* the response has no data, no feeds or an empty feeds array
FetchEmpty(i) ==
    /\ pc[i] = "fetch"
    /\ pc' = [pc EXCEPT ![i] = "done"]
    /\ UNCHANGED <<program, client, credentials, clock, lastNotificationTime, latest, now,
                   pos, polls, poll, fetched, lastBefore, smsLog, dvars>>

\* the response carries a feed: take `now`, parse, run the checks up to the first SMS
FetchOkWith(i, feed, d) ==
    /\ clock' = clock + d
    /\ latest' = [latest EXCEPT ![i] = feed]
    /\ now' = [now EXCEPT ![i] = clock + d]
    /\ fetched' = [fetched EXCEPT ![i] = TRUE]
    /\ lastBefore' = [lastBefore EXCEPT ![i] = lastNotificationTime]
    /\ RunChecks(i, 1, feed, clock + d, lastNotificationTime, smsLog)
    /\ UNCHANGED <<program, client, credentials, lastNotificationTime, polls, poll, dvars>>

FetchOk(i) ==
    /\ pc[i] = "fetch"
    /\ \E feed \in Feeds(program), d \in Steps(program) : FetchOkWith(i, feed, d)

\* `await sendSMS(msg)` returns (sendSMS never throws): record the notification
\* time and run the remaining checks
SmsReturn(i) ==
    /\ pc[i] = "sms"
    /\ \E o \in Outcomes :
         LET m   == Checks(program)[pos[i]].metric
             lnt == [lastNotificationTime EXCEPT ![m] = AfterSend(o, now[i], @)]
             idx == CHOOSE j \in 1..Len(smsLog) :
                        smsLog[j].poll = poll[i] /\ smsLog[j].outcome = "pending"
         IN  /\ lastNotificationTime' = lnt
             /\ RunChecks(i, pos[i] + 1, latest[i], now[i], lnt,
                          [smsLog EXCEPT ![idx].outcome = o])
    /\ UNCHANGED <<program, client, credentials, clock, latest, now, polls, poll, fetched,
                   lastBefore, dvars>>

\* no invocation is between its start and its end
Quiet == \A j \in Invocations : pc[j] \in {"idle", "done"}

(*************************** dashboard *************************************)
\* json.feeds.map(...): one formatted sample, metric -> Number(f.fieldN) || 0
Format(feed) ==
    [m \in DOMAIN FieldOf("dashboard") |-> Value("dashboard", feed, m)]

\* the newAlerts array of checkEmergencies: one entry per breached check, in order
NewAlerts(sample) ==
    LET hit == SelectSeq(Checks("dashboard"),
                         LAMBDA c : Breach("dashboard", c, sample[c.metric]))
    IN  [k \in 1..Len(hit) |-> [metric |-> hit[k].metric, value |-> sample[hit[k].metric]]]

\* variant of Notify that stays silent about a metric it has already notified
NotifySuppressed(log, new) ==
    IF permission
    THEN log \o SelectSeq(new, LAMBDA a : \A j \in 1..Len(log) : log[j].metric # a.metric)
    ELSE log

\* notify(title, body): shows a Notification only when permission is granted
Notify(log, new) == IF permission THEN log \o new ELSE log

\* feeds the dashboard may receive: every field present, or none
DashFeeds == FeedsOver("dashboard", Fields) \cup {NoFeed}

\* the older entries of a feeds array: one with no field set, one in which every
\* metric breaches
EarlierFeeds ==
    {NoFeed,
     [f \in Fields |->
        LET m == CHOOSE x \in DOMAIN FieldOf("dashboard") : FieldOf("dashboard")[x] = f
        IN  IF LowLimit("dashboard", m) THEN Limits("dashboard")[m] - 1
            ELSE Limits("dashboard")[m] + 1]}

\* json.feeds: the empty array, and arrays of at most MaxFeeds feeds, oldest first
FeedArrays ==
    {<< >>} \cup
    UNION { {e \o <<f>> : e \in [1..(n - 1) -> EarlierFeeds], f \in DashFeeds} : n \in 1..MaxFeeds }

\* what a fetchData call received: kind "error" (fetch or res.json() rejected),
\* "nofeeds" (a body without a feeds member) or "feeds" (json.feeds, maybe empty)
Response(kind, feeds) == [kind |-> kind, feeds |-> feeds]

\* which view the component renders: 0 language selection, 1 login,
\* 2 configuration, 3 dashboard
View ==
    CASE language = "none" -> 0
      [] language # "none" /\ ~user -> 1
      [] language # "none" /\ user /\ ~isConnected -> 2
      [] OTHER -> 3

\* fetchData goes on to fetch: `if (!channelId || !apiKey) return;`
FetchStarts(c, k) == c # "" /\ k # ""

\* variant of AfterCleanup in which the effect returns no cleanup
AfterCleanupLeaky(n, was) == n

\* the cleanup the polling effect returned when it ran with isConnected true:
\* clearInterval(i)
AfterCleanup(n, was) == IF was THEN n - 1 ELSE n

\* the polling effect re-runs because isConnected or fetchData changed: the
\* cleanup of the last run, then, when connected, fetchData() at once and a new
\* interval timer
PollingEffect(was, is) ==
    /\ is => dpolls < MaxFetches
    /\ timers' = AfterCleanup(timers, was) + (IF is THEN 1 ELSE 0)
    /\ IF is /\ FetchStarts(channelId', apiKey')
       THEN fetches' = fetches + 1 /\ dpolls' = dpolls + 1
       ELSE UNCHANGED <<fetches, dpolls>>

\* a language button of view 0
SelectLanguage ==
    /\ program = "dashboard"
    /\ View = 0
    /\ \E l \in Languages :
         /\ language' = l
         /\ storage' = [storage EXCEPT !.language = l]
    /\ PollingEffect(isConnected, isConnected)
    /\ UNCHANGED <<program, svars, permission, isConnected, data, alerts, lastUpdate,
                   notifications, responses, user, channelId, apiKey, refused>>

\* handleGoogleSuccess with a credential that decodes
HandleGoogleSuccess ==
    /\ program = "dashboard"
    /\ View = 1
    /\ user' = TRUE
    /\ storage' = [storage EXCEPT !.googleUser = TRUE]
    /\ UNCHANGED <<program, svars, permission, isConnected, data, alerts, lastUpdate, fetches,
                   dpolls, notifications, responses, language, channelId, apiKey, timers,
                   refused>>

\* onChange of the channel id input of view 2
SetChannelId ==
    /\ program = "dashboard"
    /\ View = 2
    /\ channelId' = IF channelId = "" THEN "id" ELSE ""
    /\ apiKey' = apiKey
    /\ PollingEffect(isConnected, isConnected)
    /\ UNCHANGED <<program, svars, permission, isConnected, data, alerts, lastUpdate,
                   notifications, responses, language, user, storage, refused>>

\* onChange of the key input of view 2
SetApiKey ==
    /\ program = "dashboard"
    /\ View = 2
    /\ apiKey' = IF apiKey = "" THEN "key" ELSE ""
    /\ channelId' = channelId
    /\ PollingEffect(isConnected, isConnected)
    /\ UNCHANGED <<program, svars, permission, isConnected, data, alerts, lastUpdate,
                   notifications, responses, language, user, storage, refused>>

\* variant of CanConnect that asks for one of the two only
CanConnectEither(c, k) == c # "" \/ k # ""

\* the test of handleConnect: `if (channelId && apiKey)`
CanConnect(c, k) == c # "" /\ k # ""

\* handleConnect (the form of view 2 is submitted): with both fields filled in
\* they are stored and isConnected is set, and the polling effect runs
HandleConnect ==
    /\ program = "dashboard"
    /\ View = 2
    /\ IF CanConnect(channelId, apiKey)
       THEN /\ storage' = [storage EXCEPT !.channelId = channelId, !.apiKey = apiKey]
            /\ isConnected' = TRUE
            /\ UNCHANGED <<channelId, apiKey>>
            /\ PollingEffect(FALSE, TRUE)
            /\ UNCHANGED refused
       ELSE /\ refused' = TRUE
            /\ UNCHANGED <<storage, isConnected, channelId, apiKey, timers, fetches, dpolls>>
    /\ UNCHANGED <<program, svars, permission, data, alerts, lastUpdate, notifications,
                   responses, language, user>>

\* the interval timer of the polling effect fires: fetchData()
TimerTick ==
    /\ program = "dashboard"
    /\ timers > 0
    /\ dpolls < MaxFetches
    /\ FetchStarts(channelId, apiKey)
    /\ fetches' = fetches + 1
    /\ dpolls' = dpolls + 1
    /\ UNCHANGED <<program, svars, permission, isConnected, data, alerts, lastUpdate,
                   notifications, responses, uvars>>

\* handleDisconnect (view 3); the effect's cleanup clears the timer
HandleDisconnect ==
    /\ program = "dashboard"
    /\ View = 3
    /\ isConnected' = FALSE
    /\ data' = << >>
    /\ alerts' = << >>
    /\ UNCHANGED <<channelId, apiKey>>
    /\ PollingEffect(TRUE, FALSE)
    /\ UNCHANGED <<program, svars, permission, lastUpdate, notifications, responses,
                   language, user, storage, refused>>

\* variant of SignOutStorage that clears the whole of localStorage
SignOutStorageCleared(st) == NoStorage

\* the removeItem calls of handleSignOut
SignOutStorage(st) == [st EXCEPT !.googleUser = FALSE, !.channelId = "", !.apiKey = ""]

\* variant of SignOutConnected in which handleSignOut leaves isConnected alone
SignOutConnectedKept(c) == c

\* handleSignOut: setIsConnected(false)
SignOutConnected(c) == FALSE

\* handleSignOut (views 2 and 3)
HandleSignOut ==
    /\ program = "dashboard"
    /\ View \in {2, 3}
    /\ user' = FALSE
    /\ isConnected' = SignOutConnected(isConnected)
    /\ storage' = SignOutStorage(storage)
    /\ UNCHANGED <<channelId, apiKey>>
    /\ PollingEffect(isConnected, isConnected')
    /\ UNCHANGED <<program, svars, permission, data, alerts, lastUpdate, notifications,
                   responses, language, refused>>

\* the language toggle of view 3: fetchData depends on the translations through
\* checkEmergencies, so the polling effect re-runs
ToggleLanguage ==
    /\ program = "dashboard"
    /\ View = 3
    /\ language' = IF language = "en" THEN "hi" ELSE "en"
    /\ storage' = [storage EXCEPT !.language = language']
    /\ UNCHANGED <<channelId, apiKey>>
    /\ PollingEffect(TRUE, TRUE)
    /\ UNCHANGED <<program, svars, permission, isConnected, data, alerts, lastUpdate,
                   notifications, responses, user, refused>>

\* fetch or res.json() rejects: the catch block logs
DashFetchFail ==
    /\ fetches > 0
    /\ fetches' = fetches - 1
    /\ responses' = Append(responses, Response("error", << >>))
    /\ UNCHANGED <<program, svars, permission, isConnected, data, alerts, lastUpdate, dpolls,
                   notifications, uvars>>

\* the response has no feeds member
DashFetchNoFeeds ==
    /\ fetches > 0
    /\ fetches' = fetches - 1
    /\ responses' = Append(responses, Response("nofeeds", << >>))
    /\ UNCHANGED <<program, svars, permission, isConnected, data, alerts, lastUpdate, dpolls,
                   notifications, uvars>>

\* the response carries json.feeds: setData, setLastUpdate, checkEmergencies(last)
DashFetchOkWith(feeds) ==
    LET formatted == [k \in 1..Len(feeds) |-> Format(feeds[k])] IN
    /\ data' = formatted
    /\ lastUpdate' = lastUpdate + 1
    /\ IF Len(formatted) = 0
       THEN UNCHANGED <<alerts, notifications>>
       ELSE /\ alerts' = NewAlerts(formatted[Len(formatted)])
            /\ notifications' = Notify(notifications, NewAlerts(formatted[Len(formatted)]))
    /\ responses' = Append(responses, Response("feeds", feeds))
    /\ fetches' = fetches - 1
    /\ UNCHANGED <<program, svars, permission, isConnected, dpolls, uvars>>

DashFetchOk ==
    /\ fetches > 0
    /\ \E feeds \in FeedArrays : DashFetchOkWith(feeds)

(***************************** Next ****************************************)
\* a session of the dashboard from what localStorage holds, with feeds of every
\* shape; language selection, login and the typing of view 2 are in NextViews
Dashboard ==
    \/ HandleConnect
    \/ TimerTick
    \/ HandleDisconnect
    \/ HandleSignOut
    \/ ToggleLanguage
    \/ DashFetchFail
    \/ DashFetchNoFeeds
    \/ DashFetchOk

\* polls that do not overlap: the next checkSensors starts after the last one ended
Next ==
    \/ Quiet /\ Start(1)
    \/ \E i \in Invocations : FetchFail(i)
    \/ \E i \in Invocations : FetchEmpty(i)
    \/ \E i \in Invocations : FetchOk(i)
    \/ \E i \in Invocations : SmsReturn(i)
    \/ Dashboard

Spec == Init /\ [][Next]_vars

(************************ the views of the dashboard ************************)
\* Every handler of the four views, from any localStorage; the feeds arrays are
\* the empty one and those of one entry of EarlierFeeds.
ViewFeeds == {<< >>} \cup {<<f>> : f \in EarlierFeeds}

InitViews ==
    /\ InitDashboard
    /\ latest = [i \in Invocations |-> NoFeed]
    /\ InitRest

DashFetchViews ==
    /\ fetches > 0
    /\ \E feeds \in ViewFeeds : DashFetchOkWith(feeds)

NextViews ==
    \/ SelectLanguage
    \/ HandleGoogleSuccess
    \/ SetChannelId
    \/ SetApiKey
    \/ HandleConnect
    \/ TimerTick
    \/ HandleDisconnect
    \/ HandleSignOut
    \/ ToggleLanguage
    \/ DashFetchFail
    \/ DashFetchNoFeeds
    \/ DashFetchViews

SpecViews == InitViews /\ [][NextViews]_vars

(******************* the channel's entry does not change *******************)
\* ThingSpeak answers `results=1` with the channel's last entry: until the
\* sensor uploads again, every poll receives the same feed.  Here the channel
\* holds one entry for the whole run; latest[i] holds it from the start, and
\* the invocations take turns so that two successive polls are both in view.
InitSame ==
    /\ InitService
    /\ \E feed \in Feeds(program) : latest = [i \in Invocations |-> feed]
    /\ InitRest

StartSame(i) == StartCall(i, latest[i])

FetchSame(i) ==
    /\ pc[i] = "fetch"
    /\ \E d \in Steps(program) : FetchOkWith(i, latest[i], d)

NextSame ==
    \/ Quiet /\ StartSame((polls % 2) + 1)
    \/ \E i \in Invocations : FetchFail(i)
    \/ \E i \in Invocations : FetchEmpty(i)
    \/ \E i \in Invocations : FetchSame(i)
    \/ \E i \in Invocations : SmsReturn(i)

SpecSame == InitSame /\ [][NextSame]_vars

\* The timer of setInterval fires for as long as the process lives, and every
\* awaited promise (axios.get, client.messages.create) settles: a step that can
\* be taken is eventually taken.
SpecSameFair == SpecSame /\ WF_vars(NextSame)

(********** steady polling of a channel whose entry does not change ********)
\* polls it takes for a cooldown to run out when they are checkInterval apart
PollsPerCooldown(v) == Cooldown(v) \div CheckInterval(v) + 1

\* invocations in a steady run: enough for the first alert of a metric and
\* MaxRefires more
SteadyPolls(v) == (MaxRefires + 1) * PollsPerCooldown(v)

\* credentials set, every field present in the channel's entry
InitSteady ==
    /\ InitService
    /\ credentials
    /\ \E feed \in FeedsOver(program, Fields) : latest = [i \in Invocations |-> feed]
    /\ InitRest

StartSteady(i) == polls < SteadyPolls(program) /\ BeginCall(i, latest[i])

\* every fetch succeeds; the timer fires every checkInterval, so each poll reads
\* a clock checkInterval after the one before
FetchSteady(i) ==
    /\ pc[i] = "fetch"
    /\ FetchOkWith(i, latest[i], CheckInterval(program))

NextSteady ==
    \/ Quiet /\ StartSteady(1)
    \/ \E i \in Invocations : FetchSteady(i)
    \/ \E i \in Invocations : SmsReturn(i)

SpecSteady == InitSteady /\ [][NextSteady]_vars /\ WF_vars(NextSteady)

\* Overlapping invocations: the timer (and the startup call) may call
\* checkSensors while an earlier invocation is still awaiting its fetch or an
\* SMS; the invocations then interleave at their await points.
NextOverlap ==
    \/ \E i \in Invocations : StartSame(i)
    \/ \E i \in Invocations : FetchFail(i)
    \/ \E i \in Invocations : FetchEmpty(i)
    \/ \E i \in Invocations : FetchSame(i)
    \/ \E i \in Invocations : SmsReturn(i)

SpecOverlap == InitSame /\ [][NextOverlap]_vars

(***************************************************************************)
(*                              Properties                                 *)
(***************************************************************************)
LogIdx == 1..Len(smsLog)

\* invocation i has ended a poll whose fetch returned a feed
Polled(i) == pc[i] = "done" /\ fetched[i]

\* an alert for metric m was fired in poll number p
FiredIn(p, m) == \E j \in LogIdx : smsLog[j].poll = p /\ smsLog[j].metric = m

\* no alert for metric m was fired in a poll before poll number p
NeverFiredBefore(p, m) == ~ \E j \in LogIdx : smsLog[j].metric = m /\ smsLog[j].poll < p

CheckIdx == 1..Len(Checks(program))

\* any two alerts for one metric are more than the cooldown apart
AlertsSpaced ==
    \A j, k \in LogIdx :
        (j < k /\ smsLog[j].metric = smsLog[k].metric)
            => smsLog[k].at - smsLog[j].at > Cooldown(program)

\* C1: two alerts for the same metric are never fired with `now` values that are
\* the cooldown or less apart; and two successive polls that receive the same
\* sample, a sample in which a metric breaches, with `now` values less than the
\* cooldown apart, yield exactly one alert for that metric.
C1_CooldownIdempotence ==
    /\ AlertsSpaced
    /\ \A i, j \in Invocations :
         (/\ Polled(i) /\ Polled(j)
          /\ poll[j] = poll[i] + 1
          /\ latest[i] = latest[j]
          /\ now[j] - now[i] < Cooldown(program))
         => \A k \in CheckIdx :
              LET m == Checks(program)[k].metric IN
              Breach(program, Checks(program)[k], Value(program, latest[j], m))
                => Cardinality({x \in LogIdx : /\ smsLog[x].metric = m
                                               /\ smsLog[x].poll \in {poll[i], poll[j]}}) = 1

\* C2: for every high-limit check, a poll with a fetched sample fires an alert
\* for the metric iff value > limit and (the metric has never fired or
\* now - lastFiredAt > cooldown).
C2_HighLimitFiresIff ==
    \A i \in Invocations : Polled(i) =>
        \A k \in CheckIdx :
            LET c == Checks(program)[k]
                m == c.metric
                value == Value(program, latest[i], m)
            IN  c.dir = "above" =>
                  ( FiredIn(poll[i], m)
                    <=> /\ value > Limits(program)[m]
                        /\ \/ NeverFiredBefore(poll[i], m)
                           \/ now[i] - lastBefore[i][m] > Cooldown(program) )

\* C3: a breaching metric that has never fired since the process started fires
\* on its first breaching poll, whatever the clock reads (now = 0 and any
\* now <= cooldown included).
C3_FirstBreachFires ==
    \A i \in Invocations : Polled(i) =>
        \A k \in CheckIdx :
            LET c == Checks(program)[k]
                m == c.metric
            IN  ( /\ Breach(program, c, Value(program, latest[i], m))
                  /\ NeverFiredBefore(poll[i], m) )
                => FiredIn(poll[i], m)

\* C4: every lastNotificationTime entry is non-decreasing from step to step, and
\* once it has left its initial value 0 it never returns to it.
C4_LastFiredMonotone ==
    [][ \A m \in DOMAIN lastNotificationTime :
          /\ lastNotificationTime'[m] >= lastNotificationTime[m]
          /\ (lastNotificationTime[m] # 0 => lastNotificationTime'[m] # 0) ]_vars

\* C4 witness: a metric has been notified twice, and its entry holds the later time
C4_Witness ==
    \E j, k \in LogIdx :
        /\ j < k
        /\ smsLog[j].metric = smsLog[k].metric
        /\ smsLog[k].outcome # "pending"
        /\ smsLog[k].at > smsLog[j].at
        /\ lastNotificationTime[smsLog[k].metric] = smsLog[k].at

\* C5: a value exactly equal to its limit never fires: no SMS of a service, no
\* notification and no alert of the dashboard is about a value equal to the limit.
C5_EqualToLimitNeverFires ==
    /\ \A j \in LogIdx : smsLog[j].value # Limits(program)[smsLog[j].metric]
    /\ \A j \in 1..Len(notifications) :
         notifications[j].value # Limits(program)[notifications[j].metric]
    /\ \A j \in 1..Len(alerts) : alerts[j].value # Limits(program)[alerts[j].metric]

\* C5 witness: a poll has ended in which a high-limit metric and a low-limit
\* metric both sat exactly on their limits, both outside their cooldown, and
\* no alert was fired for either
C5_Witness ==
    \E i \in Invocations : \E h, l \in CheckIdx :
        LET ch == Checks(program)[h]
            cl == Checks(program)[l]
        IN  /\ Polled(i)
            /\ ch.dir = "above" /\ cl.dir = "below"
            /\ Value(program, latest[i], ch.metric) = Limits(program)[ch.metric]
            /\ Value(program, latest[i], cl.metric) = Limits(program)[cl.metric]
            /\ now[i] - lastBefore[i][ch.metric] > Cooldown(program)
            /\ now[i] - lastBefore[i][cl.metric] > Cooldown(program)
            /\ ~FiredIn(poll[i], ch.metric)
            /\ ~FiredIn(poll[i], cl.metric)

\* the zero-guarded low-limit metrics: battery SOC in variant 1 and in the
\* dashboard, humidity in variant 3
ZeroGuarded(v, m) ==
    \/ v \in {"service1", "dashboard"} /\ m = "battery"
    \/ v = "service3" /\ m = "humidity"

\* C6: for the zero-guarded low-limit metrics an alert is fired only when
\* 0 < value < limit and the metric is outside its cooldown (never when
\* value <= 0): every SMS about one is about such a value and comes more than
\* the cooldown after the previous one, and every dashboard notification or
\* alert about one is about such a value.
C6_ZeroGuardedLowLimit ==
    /\ \A j \in LogIdx :
         ZeroGuarded(program, smsLog[j].metric) =>
            /\ smsLog[j].value > 0
            /\ smsLog[j].value < Limits(program)[smsLog[j].metric]
            /\ \A x \in LogIdx :
                 (x < j /\ smsLog[x].metric = smsLog[j].metric)
                    => smsLog[j].at - smsLog[x].at > Cooldown(program)
    /\ \A j \in 1..Len(notifications) :
         ZeroGuarded(program, notifications[j].metric) =>
            /\ notifications[j].value > 0
            /\ notifications[j].value < Limits(program)[notifications[j].metric]
    /\ \A j \in 1..Len(alerts) :
         ZeroGuarded(program, alerts[j].metric) =>
            /\ alerts[j].value > 0
            /\ alerts[j].value < Limits(program)[alerts[j].metric]

\* C6 witness: a poll has ended in which a zero-guarded metric read 0 or less,
\* outside its cooldown, and no alert was fired for it
C6_Witness ==
    \E i \in Invocations : \E k \in CheckIdx :
        LET m == Checks(program)[k].metric IN
        /\ Polled(i)
        /\ ZeroGuarded(program, m)
        /\ Value(program, latest[i], m) <= 0
        /\ now[i] - lastBefore[i][m] > Cooldown(program)
        /\ ~FiredIn(poll[i], m)

\* C7: the light-intensity check skips whenever the value is <= 0: no alert is
\* fired for it and its lastNotificationTime entry is unchanged.
C7_LightSkipsNonPositive ==
    \A i \in Invocations :
        ( /\ program = "service2"
          /\ Polled(i)
          /\ Value(program, latest[i], "lightIntensity") <= 0 )
        => /\ ~FiredIn(poll[i], "lightIntensity")
           /\ lastNotificationTime["lightIntensity"] = lastBefore[i]["lightIntensity"]

\* C8: a metric whose field is missing from the fetched feed is skipped: no
\* alert is fired for it and its lastNotificationTime entry is unchanged.
C8_MissingFieldSkipped ==
    \A i \in Invocations : Polled(i) =>
        \A k \in CheckIdx :
            LET m == Checks(program)[k].metric IN
            FieldOf(program)[m] \notin DOMAIN latest[i]
                => /\ ~FiredIn(poll[i], m)
                   /\ lastNotificationTime[m] = lastBefore[i][m]

\* C9: with polls checkInterval apart, no metric fires on two consecutive polls.
C9_NotOnConsecutivePolls ==
    \A j, k \in LogIdx :
        ~ ( /\ smsLog[j].metric = smsLog[k].metric
            /\ smsLog[k].poll = smsLog[j].poll + 1
            /\ smsLog[k].at - smsLog[j].at = CheckInterval(program) )

\* the last SMS about the metric of entry j is entry j itself
LastAbout(j) == \A x \in LogIdx : (x > j) => smsLog[x].metric # smsLog[j].metric

\* C10: when an SMS failed at the provider or was only simulated, the metric's
\* lastNotificationTime entry still holds that poll's `now` (until a later alert
\* replaces it), and every later alert for the metric comes more than the
\* cooldown after it.
C10_UndeliveredStillCounts ==
    \A j \in LogIdx :
        smsLog[j].outcome \in {"error", "simulated"} =>
            /\ LastAbout(j) => lastNotificationTime[smsLog[j].metric] = smsLog[j].at
            /\ \A x \in LogIdx :
                 (x > j /\ smsLog[x].metric = smsLog[j].metric)
                    => smsLog[x].at - smsLog[j].at > Cooldown(program)

\* C10 witness: an SMS failed at the provider, and a later poll, within the
\* cooldown of it, found the same metric in breach and sent nothing for it
C10_Witness ==
    \E j \in LogIdx : \E i \in Invocations : \E k \in CheckIdx :
        LET c == Checks(program)[k] IN
        /\ smsLog[j].outcome = "error"
        /\ c.metric = smsLog[j].metric
        /\ Polled(i)
        /\ poll[i] > smsLog[j].poll
        /\ Breach(program, c, Value(program, latest[i], c.metric))
        /\ now[i] - smsLog[j].at <= Cooldown(program)
        /\ ~FiredIn(poll[i], c.metric)

\* a response that brought no feed: the fetch failed, or the body had no feeds
\* member, or json.feeds was an empty array
NoFeedsIn(r) == r.kind \in {"error", "nofeeds"} \/ Len(r.feeds) = 0

\* C11: a fetch that fails or returns no feeds leaves the state unchanged: a
\* checkSensors invocation that ends that way sends no SMS and changes no
\* lastNotificationTime entry; a fetchData call that ends that way changes
\* neither data nor alerts nor lastUpdate.
C11_FailedFetchChangesNothing ==
    [][ /\ \A i \in Invocations :
             (pc[i] = "fetch" /\ pc'[i] = "done" /\ ~fetched'[i])
                => /\ smsLog' = smsLog
                   /\ lastNotificationTime' = lastNotificationTime
        /\ ( /\ Len(responses') = Len(responses) + 1
             /\ NoFeedsIn(responses'[Len(responses')]) )
           => /\ data' = data
              /\ alerts' = alerts
              /\ lastUpdate' = lastUpdate ]_vars

\* C12: within one poll each metric is evaluated on its own: a metric's
\* lastNotificationTime entry changes in the poll iff an alert for that metric
\* is fired in it, and then holds the poll's `now`; and the alert is fired iff
\* the metric's own value breaches and its own entry is more than the cooldown
\* before `now`, whatever the other metrics read or did.
C12_MetricsIndependent ==
    \A i \in Invocations : Polled(i) =>
        \A k \in CheckIdx :
            LET c == Checks(program)[k]
                m == c.metric
            IN  /\ FiredIn(poll[i], m) <=> lastNotificationTime[m] # lastBefore[i][m]
                /\ FiredIn(poll[i], m) => lastNotificationTime[m] = now[i]
                /\ FiredIn(poll[i], m)
                     <=> /\ Breach(program, c, Value(program, latest[i], m))
                         /\ now[i] - lastBefore[i][m] > Cooldown(program)

\* C12 witness: a poll has ended in which one metric fired and took the poll's
\* `now`, while another metric, breaching too but within its own cooldown, did
\* not fire and kept its entry
C12_Witness ==
    \E i \in Invocations : \E a, b \in CheckIdx :
        LET ma == Checks(program)[a].metric
            cb == Checks(program)[b]
        IN  /\ Polled(i)
            /\ FiredIn(poll[i], ma)
            /\ lastNotificationTime[ma] = now[i]
            /\ Breach(program, cb, Value(program, latest[i], cb.metric))
            /\ ~FiredIn(poll[i], cb.metric)
            /\ lastBefore[i][cb.metric] > 0
            /\ lastNotificationTime[cb.metric] = lastBefore[i][cb.metric]

\* a value breaches a configured limit in the direction the CONFIG comment gives
\* it: above a "High limit", below a "Low limit" (a low-limit reading of 0 or
\* less counts as a disconnected sensor, not as a breach)
ConfiguredBreach(v, m, value) ==
    IF LowLimit(v, m)
    THEN value < Limits(v)[m] /\ value > 0
    ELSE value > Limits(v)[m]

\* C13: in every service variant, every metric that has a limit in CONFIG.limits
\* and a value in the fetched sample is evaluated on each successful poll: when
\* it breaches its limit and is outside its cooldown (a metric without a
\* lastNotificationTime entry counts as last notified at 0, like every entry at
\* the start), an alert for it is fired in that poll.
C13_EveryConfiguredLimitChecked ==
    \A i \in Invocations : Polled(i) =>
        \A m \in DOMAIN Limits(program) :
            LET last == IF m \in DOMAIN lastBefore[i] THEN lastBefore[i][m] ELSE 0 IN
            ( /\ FieldOf(program)[m] \in DOMAIN latest[i]
              /\ ConfiguredBreach(program, m, Value(program, latest[i], m))
              /\ now[i] - last > Cooldown(program) )
            => FiredIn(poll[i], m)

\* the feeds array of the last response that carried one
LastFeeds ==
    LET K == {k \in 1..Len(responses) : responses[k].kind = "feeds"}
        last == CHOOSE k \in K : \A x \in K : x <= k
    IN  responses[last].feeds

\* the metrics whose check variant 1's checkSensors enters for a feed, before
\* any cooldown test
ServiceBreached(feed) ==
    {Checks("service1")[k].metric : k \in {x \in 1..Len(Checks("service1")) :
        Breach("service1", Checks("service1")[x],
               Value("service1", feed, Checks("service1")[x].metric))}}

\* C14: the dashboard applies the threshold logic of service variant 1: whenever
\* the dashboard shows data, the metrics its alerts report are exactly the
\* metrics whose check checkSensors would enter, before the cooldown test, for
\* the same feed (the last one of the feeds array the data came from).
C14_SameThresholdLogic ==
    (program = "dashboard" /\ data # << >>)
        => {alerts[k].metric : k \in 1..Len(alerts)}
             = ServiceBreached(LastFeeds[Len(LastFeeds)])

\* C14 witness: the dashboard shows a sample for which both a high-limit alert
\* and the low-battery alert are reported, and no alert for a metric on its limit
C14_Witness ==
    /\ program = "dashboard"
    /\ data # << >>
    /\ {alerts[k].metric : k \in 1..Len(alerts)} = {"voltage", "battery"}
    /\ data[Len(data)].current = Limits("dashboard").current

\* poll number n has ended in failure: its fetch was not made or brought no feed,
\* or an SMS of it failed at the provider
FailedCycle(n) ==
    /\ program \in Services
    /\ polls = n
    /\ \E i \in Invocations :
         /\ poll[i] = n
         /\ pc[i] \notin {"fetch", "sms"}
         /\ \/ ~fetched[i]
            \/ \E j \in LogIdx : smsLog[j].poll = n /\ smsLog[j].outcome = "error"

\* C15: a failed fetch or a failed SMS never stops the polling: after every poll
\* that ended in failure the next checkSensors invocation starts (for every
\* poll below the MaxPolls invocations of a run).
C15_PollingSurvivesFailure ==
    \A n \in 1..(MaxPolls - 1) : FailedCycle(n) ~> (polls > n)

\* C15 witness: the first poll's fetch failed, an SMS of the second poll failed
\* at the provider, and that poll has ended
C15_Witness ==
    /\ program \in Services
    /\ credentials
    /\ \E i \in Invocations : poll[i] = 1 /\ pc[i] = "done" /\ ~fetched[i]
    /\ \E i \in Invocations : poll[i] = 2 /\ pc[i] = "done" /\ fetched[i]
    /\ \E j \in LogIdx : smsLog[j].poll = 2 /\ smsLog[j].outcome = "error"

\* C16: under overlapping invocations the cooldown still holds: any two alerts
\* for one metric are more than the cooldown apart, and no two invocations are
\* at the same time between the cooldown test of a metric and the update of
\* its lastNotificationTime entry.
C16_OverlapKeepsCooldown ==
    /\ \A j, k \in LogIdx :
         (j < k /\ smsLog[j].metric = smsLog[k].metric)
            => smsLog[k].at - smsLog[j].at > Cooldown(program)
    /\ \A i, j \in Invocations :
         (i # j /\ pc[i] = "sms" /\ pc[j] = "sms")
            => Checks(program)[pos[i]].metric # Checks(program)[pos[j]].metric

AllMetrics == {"voltage", "current", "temperature", "battery", "humidity", "lightIntensity"}

\* the alerts fired for metric m so far
AlertsFor(m) == {j \in LogIdx : smsLog[j].metric = m}

\* C17: with steady polling, successful fetches and a sample that keeps
\* breaching, every alert for a metric is eventually followed by another one
\* (for the first MaxRefires alerts of a run), and the poll that fires it is the
\* first one more than the cooldown after the alert before: the poll one
\* checkInterval earlier was still within the cooldown.
C17_RefiresAfterCooldown ==
    /\ [](\A j, k \in LogIdx :
            (j < k /\ smsLog[j].metric = smsLog[k].metric
                   /\ ~ \E x \in LogIdx : j < x /\ x < k /\ smsLog[x].metric = smsLog[j].metric)
               => /\ smsLog[k].at - smsLog[j].at > Cooldown(program)
                  /\ smsLog[k].at - CheckInterval(program) - smsLog[j].at <= Cooldown(program))
    /\ \A m \in AllMetrics : \A c \in 1..MaxRefires :
         (Cardinality(AlertsFor(m)) = c) ~> (Cardinality(AlertsFor(m)) > c)

\* C17 witness: a metric has been alerted on twice in a steady run, with polls
\* in between that the cooldown kept silent
C17_Witness ==
    \E j, k \in LogIdx :
        /\ j < k
        /\ smsLog[j].metric = smsLog[k].metric
        /\ smsLog[k].outcome # "pending"
        /\ smsLog[k].poll > smsLog[j].poll + 1
        /\ smsLog[k].at - smsLog[j].at > Cooldown(program)

\* C18: handleDisconnect resets the dashboard for good: the step that
\* disconnects leaves data and alerts empty, and as long as the dashboard stays
\* disconnected no fetchData call is started, data and alerts stay empty and no
\* notification is shown, also when a fetch started earlier completes.
C18_DisconnectResets ==
    [][ program = "dashboard" =>
          /\ (isConnected /\ ~isConnected') => (data' = << >> /\ alerts' = << >>)
          /\ (~isConnected /\ ~isConnected')
               => /\ dpolls' = dpolls
                  /\ data' = << >>
                  /\ alerts' = << >>
                  /\ notifications' = notifications ]_vars

\* the metrics of a formatted sample that breach their limit
DashBreached(sample) ==
    {Checks("dashboard")[k].metric : k \in {x \in 1..Len(Checks("dashboard")) :
        Breach("dashboard", Checks("dashboard")[x], sample[Checks("dashboard")[x].metric])}}

\* C19: after every fetch that received a feeds array, alerts holds exactly one
\* entry per breaching metric of the last element of data, and nothing else; it
\* is empty when data is empty.
C19_AlertsAreLatestBreaches ==
    [][ ( /\ Len(responses') = Len(responses) + 1
          /\ responses'[Len(responses')].kind = "feeds" )
        => LET breached == IF data' = << >> THEN {}
                           ELSE DashBreached(data'[Len(data')])
           IN  /\ {alerts'[k].metric : k \in 1..Len(alerts')} = breached
               /\ Len(alerts') = Cardinality(breached) ]_vars

\* the responses whose last feed breaches metric m
BreachingResponses(m) ==
    {k \in 1..Len(responses) :
        /\ responses[k].kind = "feeds"
        /\ Len(responses[k].feeds) > 0
        /\ m \in DashBreached(Format(responses[k].feeds[Len(responses[k].feeds)]))}

\* C20: the dashboard suppresses nothing between polls: with notification
\* permission granted, the notifications shown for a metric are as many as the
\* successful polls whose latest sample breached it.
C20_NoSuppression ==
    (program = "dashboard" /\ permission) =>
        \A m \in DOMAIN Limits("dashboard") :
            Cardinality({j \in 1..Len(notifications) : notifications[j].metric = m})
                = Cardinality(BreachingResponses(m))

\* C20 witness: two polls in a row brought a sample breaching the same metric,
\* and two notifications were shown for it
C20_Witness ==
    /\ program = "dashboard"
    /\ permission
    /\ \E m \in DOMAIN Limits("dashboard") :
         /\ BreachingResponses(m) = {1, 2}
         /\ Cardinality({j \in 1..Len(notifications) : notifications[j].metric = m}) = 2

\* C21: in the dashboard at most one interval timer is alive, one is alive
\* exactly while isConnected is true, and a fetchData call begins only in a step
\* that leaves the dashboard connected, whatever the connect, disconnect,
\* sign-out and language-toggle events were.
C21_OneTimerWhileConnected ==
    /\ [](timers <= 1 /\ (timers = 1 <=> isConnected))
    /\ [][dpolls' # dpolls => isConnected']_vars

\* C21 witness: the dashboard is connected with one timer alive, and the polling
\* effect or the timer has called fetchData a second time
C21_Witness ==
    /\ isConnected
    /\ timers = 1
    /\ dpolls = MaxFetches
    /\ fetches = MaxFetches

\* C22: while connected a user is signed in and a language is selected;
\* isConnected becomes true only in the configuration view, and a sign-out
\* leaves it false.
C22_ConnectedImpliesSignedIn ==
    /\ [](isConnected => user /\ language # "none")
    /\ [][(~isConnected /\ isConnected' => View = 2) /\ (user /\ ~user' => ~isConnected')]_vars

\* C22 witness: signed out while a fetchData call of the connection was still
\* in flight, and the dashboard is not connected
C22_Witness ==
    /\ ~user
    /\ ~isConnected
    /\ fetches > 0

\* C23: a sign-out step sets user to null and isConnected to false, removes
\* googleUser, channelId and apiKey from localStorage, and leaves the language
\* alone in the state and in localStorage.
C23_SignOutKeepsLanguage ==
    [][user /\ ~user' =>
         /\ ~isConnected'
         /\ ~storage'.googleUser
         /\ storage'.channelId = ""
         /\ storage'.apiKey = ""
         /\ language' = language
         /\ storage'.language = storage.language]_vars

\* C23 witness: signed out after a connection had stored the channel id and the
\* key; they are gone and the language "hi" is still selected and stored
C23_Witness ==
    /\ ~user
    /\ dpolls > 0
    /\ storage = [NoStorage EXCEPT !.language = "hi"]
    /\ language = "hi"

\* C24: isConnected becomes true only with both fields non-empty, and both are
\* stored by that step; a handleConnect call returns without connecting only
\* when one of them is empty, and then isConnected, localStorage, the timers and
\* the fetchData calls are as before.
C24_ConnectNeedsBoth ==
    [][/\ (~isConnected /\ isConnected') =>
            /\ channelId # "" /\ apiKey # ""
            /\ storage'.channelId = channelId
            /\ storage'.apiKey = apiKey
            /\ timers' = timers + 1
       /\ (~refused /\ refused') =>
            /\ channelId = "" \/ apiKey = ""
            /\ UNCHANGED <<isConnected, storage, timers, fetches, dpolls>>]_vars

\* C24 witness: one handleConnect call was refused for an empty field, and a
\* later one, with both typed in, connected and stored them
C24_Witness ==
    /\ refused
    /\ isConnected
    /\ storage.channelId = "id"
    /\ storage.apiKey = "key"

\* C25: a service without the channel id or the key never fetches, sends no
\* SMS and leaves every lastNotificationTime entry at its initial value, on
\* every poll.
C25_NoCredentialsNoFetch ==
    (program \in Services /\ ~credentials) =>
        /\ smsLog = << >>
        /\ \A i \in Invocations : pc[i] \in {"idle", "done"} /\ ~fetched[i]
        /\ \A i \in Invocations : lastBefore[i] = lastNotificationTime
        /\ \A m \in DOMAIN lastNotificationTime : lastNotificationTime[m] = 0

\* C25 witness: a service without credentials has been polled MaxPolls times
C25_Witness ==
    /\ program \in Services
    /\ ~credentials
    /\ polls = MaxPolls
    /\ \A i \in Invocations : pc[i] \in {"idle", "done"}

====
